---------------------------- MODULE Spec2Model ----------------------------
(***************************************************************************)
(* Model of the ign-gazebo Thruster system                                 *)
(* (src/src/systems/thruster/Thruster.cc).                                 *)
(*                                                                         *)
(* Two call sources drive the component: the simulation loop, which calls  *)
(* Configure once and then PreUpdate every step, and the transport node,   *)
(* which delivers messages of the two subscribed topics to OnCmdThrust.    *)
(*                                                                         *)
(* Numbers.  A C++ double is modelled as an integer in a fixed unit, or    *)
(* one of the three values NaN, PInf, NInf:                                *)
(*   thrust                     1 N                                        *)
(*   angular velocity, error    0.1 rad/s   (the dead band 0.1 is 1)       *)
(*   torque, PID command        0.01                                       *)
(*   PID gains                  0.1         (the default p = 0.1 is 1)     *)
(*   propeller diameter         0.01 m      (the default 0.02 is 2)        *)
(*   dt                         1 ms                                       *)
(***************************************************************************)
EXTENDS Integers, FiniteSets, Sequences, TLC

\* ------------------------------------------------------------------------
\* IEEE doubles: finite values and the three non-finite ones
\* ------------------------------------------------------------------------
NaN == 2000000000
PInf == 1000000000
NInf == -1000000000

IsNaN(x) == x = NaN
IsInf(x) == x = PInf \/ x = NInf
IsFinite(x) == ~IsNaN(x) /\ ~IsInf(x)

\* a < b on doubles: false whenever an operand is NaN
Lt(a, b) == ~IsNaN(a) /\ ~IsNaN(b) /\ a < b
Gt(a, b) == Lt(b, a)
Ge(a, b) == ~IsNaN(a) /\ ~IsNaN(b) /\ a >= b

Neg(a) == IF IsNaN(a) THEN NaN ELSE -a

Add(a, b) ==
  IF IsNaN(a) \/ IsNaN(b) THEN NaN
  ELSE IF IsInf(a) THEN (IF IsInf(b) /\ b # a THEN NaN ELSE a)
  ELSE IF IsInf(b) THEN b
  ELSE a + b

Sub(a, b) == Add(a, Neg(b))

Mul(a, b) ==
  IF IsNaN(a) \/ IsNaN(b) THEN NaN
  ELSE IF IsInf(a) \/ IsInf(b)
       THEN (IF a = 0 \/ b = 0 THEN NaN
             ELSE IF (a > 0) = (b > 0) THEN PInf ELSE NInf)
  ELSE a * b

\* abs on a double (lines 245, 283)
fabs(a) == IF IsNaN(a) THEN NaN ELSE IF a < 0 THEN -a ELSE a

\* floor of the square root of a natural number, by bisection; the midpoint
\* is a bound variable, so it is computed once at each level
RECURSIVE SqrtSearch(_, _, _)
SqrtSearch(n, lo, hi) ==
  IF lo >= hi THEN lo
  ELSE CHOOSE r \in {IF mid * mid <= n THEN SqrtSearch(n, mid, hi)
                                       ELSE SqrtSearch(n, lo, mid - 1) :
                     mid \in {(lo + hi + 1) \div 2}} : TRUE

sqrt(n) == SqrtSearch(n, 0, 46340)

\* ------------------------------------------------------------------------
\* ignition::math helpers used by OnCmdThrust (line 236)
\* ------------------------------------------------------------------------
\* a fixnan that tests for NaN only
fixnan_nanOnly(v) == IF IsNaN(v) THEN 0 ELSE v

\* fixnan: 0 for NaN and for either infinity, the value otherwise
fixnan(v) == IF IsNaN(v) \/ IsInf(v) THEN 0 ELSE v

\* std::min(a, b) is (b < a) ? b : a, std::max(a, b) is (a < b) ? b : a
stdmin(a, b) == IF Lt(b, a) THEN b ELSE a
stdmax(a, b) == IF Lt(a, b) THEN b ELSE a

\* clamp(v, min, max) is std::max(std::min(v, max), min)
clamp(v, lo, hi) == stdmax(stdmin(v, hi), lo)

\* ------------------------------------------------------------------------
\* Vectors (ignition::math::Vector3d) and the rotations of the link pose
\* ------------------------------------------------------------------------
Zero3 == <<0, 0, 0>>

Dot(a, b) == Add(Add(Mul(a[1], b[1]), Mul(a[2], b[2])), Mul(a[3], b[3]))

Scale(v, k) == <<Mul(v[1], k), Mul(v[2], k), Mul(v[3], k)>>

\* Vector3::Normalize: divides by the length unless the length is zero
Normalize(v) ==
  LET len == sqrt(v[1] * v[1] + v[2] * v[2] + v[3] * v[3])
  IN IF len = 0 THEN v
     ELSE <<v[1] \div len, v[2] \div len, v[3] \div len>>

\* Quaternion::RotateVector for the two orientations the model gives a link
RotateVector(rot, v) ==
  IF rot = "yaw90" THEN <<-v[2], v[1], v[3]>> ELSE v

\* ------------------------------------------------------------------------
\* Program constants and inputs
\* ------------------------------------------------------------------------
cmdMax == 1000
cmdMin == -1000
kNullEntity == 0

\* the two channels Configure subscribes, one delivery context each
Channels == {"cmd_pos", "cmd_thrust"}

\* the deliveries counted between two reads of a step
MaxSinceRead == 2

\* payloads of the command messages: in range, out of range, non-finite
MsgData == {-2000, 100, 2000, NaN, PInf, NInf}

\* _info of a step: the pause flag and dt in ms
Durations == {0, 1}

\* orientations of the link and its world angular velocities (0.1 rad/s)
Rotations == {"identity", "yaw90"}
WorldAngularVelocities == {<<0, 0, 0>>, <<1, 1, 0>>, <<2, 2, 0>>, <<-2, -2, 0>>}

\* what reading the value of an empty std::optional can yield (line 280)
Indeterminate == WorldAngularVelocities \cup {<<NaN, NaN, NaN>>}

\* the model the plugin is attached to: its name, its joints with their
\* axis and the child link of each
EcmInputs ==
  { [name |-> "auv", joints |-> {"propeller_joint"}, axis |-> <<2, 0, 0>>,
     jointEntity |-> 7, childLink |-> 8],
    [name |-> "auv", joints |-> {}, axis |-> Zero3,
     jointEntity |-> kNullEntity, childLink |-> kNullEntity] }

\* the <plugin> element: the tags present and their values
Sdf(has, tc, pd, fd, p, i, d) ==
  [has |-> has,
   val |-> [namespace |-> "fleet", joint_name |-> "propeller_joint",
            thrust_coefficient |-> tc,
            propeller_diameter |-> pd, fluid_density |-> fd,
            p_gain |-> p, i_gain |-> i, d_gain |-> d]]

Required == {"joint_name", "thrust_coefficient", "propeller_diameter"}
Optional == {"namespace", "fluid_density", "p_gain", "i_gain", "d_gain"}

SdfInputs ==
  { Sdf(Required, 1, 2, 0, 0, 0, 0),
    Sdf(Required \cup Optional, 1, 2, 1000, 2, 1, 1),
    Sdf(Required \ {"joint_name"}, 1, 2, 0, 0, 0, 0),
    Sdf(Required \ {"thrust_coefficient"}, 0, 2, 0, 0, 0, 0),
    Sdf(Required \ {"propeller_diameter"}, 1, 0, 0, 0, 0, 0),
    Sdf(Required, 0, 2, 0, 0, 0, 0),
    Sdf(Required, 1, 0, 0, 0, 0, 0),
    Sdf(Required \cup {"fluid_density"}, 1, 2, 0, 0, 0, 0),
    Sdf(Required \cup {"fluid_density"}, 1, 2, -1000, 0, 0, 0) }

\* sdf::Element::HasElement, Get<double> and Get<std::string>: Get of an
\* absent tag is the default value of the type
HasElement(sdf, key) == key \in sdf.has
Get(sdf, key) == IF key \in sdf.has THEN sdf.val[key] ELSE 0
GetString(sdf, key) == IF key \in sdf.has THEN sdf.val[key] ELSE ""

\* ------------------------------------------------------------------------
\* State
\* ------------------------------------------------------------------------
VARIABLES
  mtx,                \* owner of the mutex: "free", "step" or a channel
  thrust,             \* stored thrust command [N]
  linkEntity,         \* the link that spins
  jointAxis,          \* axis the propeller spins about
  subscriptions,      \* topics the node is subscribed to
  rpmController,      \* the PID
  thrustCoefficient,
  fluidDensity,
  propellerDiameter,  \* [0.01 m]
  velocityEnabled,    \* entities with a WorldAngularVelocity component
  wrench,             \* wrench added to the link and not yet consumed
  configured,         \* the simulation loop's call of Configure has returned
  sdfUse,             \* the element Configure was given and the tags it
                      \* called Get for
  stepPc,             \* position of the stepping context in PreUpdate
  info,               \* _info of the current call of PreUpdate
  local,              \* locals of the current call of PreUpdate
  hPc,                \* position of each delivery context in OnCmdThrust
  lastMsg,            \* payloads of the completed OnCmdThrust calls: the
                      \* last one, or none
  sinceRead           \* completed OnCmdThrust calls since a step last read
                      \* the stored thrust under the mutex, up to MaxSinceRead

data == <<mtx, thrust, linkEntity, jointAxis, subscriptions, rpmController,
          thrustCoefficient, fluidDensity, propellerDiameter>>
vars == <<mtx, thrust, linkEntity, jointAxis, subscriptions, rpmController,
          thrustCoefficient, fluidDensity, propellerDiameter,
          velocityEnabled, wrench, configured, sdfUse, stepPc, info, local, hPc,
          lastMsg, sinceRead>>

NoWrench == [force |-> Zero3, torque |-> Zero3, added |-> FALSE]
NoInfo == [paused |-> FALSE, dt |-> 0]
NoLocals ==
  [unitVector |-> Zero3, desiredThrust |-> 0, desiredPropellerAngVel |-> 0,
   currentAngular |-> 0, angularError |-> 0, torque |-> 0]

\* ------------------------------------------------------------------------
\* ThrustToAngularVec (lines 241-253)
\* ------------------------------------------------------------------------
\* fluidDensity * thrustCoefficient * pow(propellerDiameter, 4), in 1e-8
Denominator(fd, tc, pd) == fd * tc * pd * pd * pd * pd

DenScale == 100000000
AngScale == 10

\* the quotient if abs were the integer abs of <cstdlib>: the argument is
\* converted to int before the square root
Quotient_intAbs(den, _thrust) ==
  IF fabs(den) <= DenScale
  THEN (DenScale \div fabs(den)) * AngScale * AngScale * fabs(_thrust)
  ELSE AngScale * AngScale * (fabs(_thrust) \div (fabs(den) \div DenScale))

\* abs(_thrust / denominator) in 0.01 (rad/s)^2, for a denominator that
\* divides DenScale or is a multiple of it
Quotient(den, _thrust) ==
  IF fabs(den) <= DenScale
  THEN (DenScale \div fabs(den)) * AngScale * AngScale * fabs(_thrust)
  ELSE (AngScale * AngScale * fabs(_thrust)) \div (fabs(den) \div DenScale)

\* sqrt(abs(_thrust / denominator)) in 0.1 rad/s
Magnitude(den, _thrust) ==
  IF IsNaN(_thrust) THEN NaN
  ELSE IF IsInf(_thrust) THEN PInf
  ELSE IF den = 0 THEN (IF _thrust = 0 THEN NaN ELSE PInf)
  ELSE sqrt(Quotient(den, _thrust))

\* a conversion that drops the sign of line 250
ThrustToAngularVec_unsigned(fd, tc, pd, _thrust) ==
  Magnitude(Denominator(fd, tc, pd), _thrust)

ThrustToAngularVec(fd, tc, pd, _thrust) ==
  LET propAngularVelocity == Magnitude(Denominator(fd, tc, pd), _thrust)
  IN Mul(propAngularVelocity, IF Gt(_thrust, 0) THEN 1 ELSE -1)

\* ------------------------------------------------------------------------
\* ignition::math::PID as rpmController uses it
\* ------------------------------------------------------------------------
\* PID(): all gains 0, limits disabled (max < min), errors and command 0
DefaultPID ==
  [pGain |-> 0, iGain |-> 0, dGain |-> 0, iMax |-> -100, iMin |-> 0,
   cmdMax |-> -100, cmdMin |-> 0, cmdOffset |-> 0,
   pErrLast |-> 0, pErr |-> 0, iErr |-> 0, cmd |-> 0]

\* an Init that takes the two command limits in the other order
PIDInit_swapped(p, i, d, iMax, iMin, cMax, cMin, cmdOffset) ==
  [pGain |-> p, iGain |-> i, dGain |-> d, iMax |-> iMax, iMin |-> iMin,
   cmdMax |-> cMin, cmdMin |-> cMax, cmdOffset |-> cmdOffset,
   pErrLast |-> 0, pErr |-> 0, iErr |-> 0, cmd |-> 0]

\* PID::Init: sets gains and limits and resets the state
PIDInit(p, i, d, iMax, iMin, cMax, cMin, cmdOffset) ==
  [pGain |-> p, iGain |-> i, dGain |-> d, iMax |-> iMax, iMin |-> iMin,
   cmdMax |-> cMax, cmdMin |-> cMin, cmdOffset |-> cmdOffset,
   pErrLast |-> 0, pErr |-> 0, iErr |-> 0, cmd |-> 0]

\* an Update that goes on when _dt is 0, with a derivative error of 0
PIDUpdate_noZeroDt(pid, _error, _dt) ==
  IF IsNaN(_error) \/ IsInf(_error)
  THEN [pid |-> pid, ret |-> 0]
  ELSE
    LET pTerm == pid.pGain * _error
        iRaw == pid.iErr + ((pid.iGain * _dt * _error) \div 1000)
        iErr == IF pid.iMax >= pid.iMin
                THEN clamp(iRaw, pid.iMin, pid.iMax) ELSE iRaw
        dErr == IF _dt = 0 THEN 0
                ELSE ((_error - pid.pErrLast) * 1000) \div _dt
        dTerm == pid.dGain * dErr
        raw == pid.cmdOffset - pTerm - iErr - dTerm
        cmd == IF Ge(pid.cmdMax, pid.cmdMin)
               THEN clamp(raw, pid.cmdMin, pid.cmdMax) ELSE raw
    IN [pid |-> [pid EXCEPT !.pErr = _error, !.pErrLast = _error,
                            !.iErr = iErr, !.cmd = cmd],
        ret |-> cmd]

\* PID::Update(_error, _dt): the controller after the call and the value
\* returned.  Nothing changes and 0 is returned when _dt is 0 or the error
\* is not finite.  The derivative error is computed anew in every call that
\* gets past that test and is read by nothing else, so it is a local here.
PIDUpdate(pid, _error, _dt) ==
  IF _dt = 0 \/ IsNaN(_error) \/ IsInf(_error)
  THEN [pid |-> pid, ret |-> 0]
  ELSE
    LET pTerm == pid.pGain * _error
        iRaw == pid.iErr + ((pid.iGain * _dt * _error) \div 1000)
        iErr == IF pid.iMax >= pid.iMin
                THEN clamp(iRaw, pid.iMin, pid.iMax) ELSE iRaw
        dErr == ((_error - pid.pErrLast) * 1000) \div _dt
        dTerm == pid.dGain * dErr
        raw == pid.cmdOffset - pTerm - iErr - dTerm
        cmd == IF Ge(pid.cmdMax, pid.cmdMin)
               THEN clamp(raw, pid.cmdMin, pid.cmdMax) ELSE raw
    IN [pid |-> [pid EXCEPT !.pErr = _error, !.pErrLast = _error,
                            !.iErr = iErr, !.cmd = cmd],
        ret |-> cmd]

\* an angular velocity [0.1 rad/s] as a PID command limit [0.01]
AsLimit(w) == Mul(w, 10)

\* no element was read yet
NoSdfUse == [element |-> Sdf({}, 0, 0, 0, 0, 0, 0), got |-> {}]

\* ------------------------------------------------------------------------
\* Construction (lines 45-96)
\* ------------------------------------------------------------------------
Init ==
  /\ mtx = "free"
  /\ thrust = 0
  /\ linkEntity = kNullEntity
  /\ jointAxis = Zero3
  /\ subscriptions = {}
  /\ rpmController = DefaultPID
  /\ thrustCoefficient = 1
  /\ fluidDensity = 1000
  /\ propellerDiameter = 2
  /\ velocityEnabled = {}
  /\ wrench = NoWrench
  /\ configured = FALSE
  /\ sdfUse = NoSdfUse
  /\ stepPc = "idle"
  /\ info = NoInfo
  /\ local = NoLocals
  /\ hPc = [k \in Channels |-> "idle"]
  /\ lastMsg = <<>>
  /\ sinceRead = 0

\* ------------------------------------------------------------------------
\* Configure (lines 104-230)
\* ------------------------------------------------------------------------
\* Model::JointByName
JointByName(ecm, jointName) ==
  IF jointName \in ecm.joints THEN ecm.jointEntity ELSE kNullEntity

\* the topic "/model/<ns>/joint/<jointName>/<channel>"
Topic(ns, jointName, channel) == <<"model", ns, "joint", jointName, channel>>

\* the gains read at lines 199-219
GainP(sdf) == IF HasElement(sdf, "p_gain") THEN Get(sdf, "p_gain") ELSE 1
GainI(sdf) == IF ~HasElement(sdf, "i_gain") THEN Get(sdf, "i_gain") ELSE 0
GainD(sdf) == IF ~HasElement(sdf, "d_gain") THEN Get(sdf, "d_gain") ELSE 0

\* the checks that make Configure return early, in the order of the code
HasJointName(sdf) == HasElement(sdf, "joint_name")
HasCoefficient(sdf) == HasJointName(sdf) /\ HasElement(sdf, "thrust_coefficient")
HasDiameter(sdf) == HasCoefficient(sdf) /\ HasElement(sdf, "propeller_diameter")
\* a Configure that goes on when the joint is not in the model
Passes_noJointCheck(sdf, ecm) == HasDiameter(sdf)

Passes(sdf, ecm) ==
  /\ HasDiameter(sdf)
  /\ JointByName(ecm, GetString(sdf, "joint_name")) # kNullEntity

\* the tags Configure calls Get for, each under the test that guards it
TagsGot(sdf, ecm) ==
  {k \in {"namespace"} : HasElement(sdf, k)}
    \cup {k \in {"joint_name"} : HasJointName(sdf)}
    \cup {k \in {"thrust_coefficient"} : HasCoefficient(sdf)}
    \cup {k \in {"propeller_diameter"} : HasDiameter(sdf)}
    \cup {k \in {"fluid_density"} : HasDiameter(sdf) /\ HasElement(sdf, k)}
    \cup {k \in {"p_gain"} : Passes(sdf, ecm) /\ HasElement(sdf, k)}
    \cup {k \in {"i_gain", "d_gain"} : Passes(sdf, ecm) /\ ~HasElement(sdf, k)}

ConfigureWith(sdf, ecm) ==
  LET ns == IF HasElement(sdf, "namespace")
            THEN GetString(sdf, "namespace") ELSE ecm.name
      jointName == GetString(sdf, "joint_name")
      tc == IF HasCoefficient(sdf)
            THEN Get(sdf, "thrust_coefficient") ELSE thrustCoefficient
      pd == IF HasDiameter(sdf)
            THEN Get(sdf, "propeller_diameter") ELSE propellerDiameter
      fd == IF HasDiameter(sdf) /\ HasElement(sdf, "fluid_density")
            THEN Get(sdf, "fluid_density") ELSE fluidDensity
  IN /\ sdfUse' = [element |-> sdf, got |-> TagsGot(sdf, ecm)]
     /\ thrustCoefficient' = tc
     /\ propellerDiameter' = pd
     /\ fluidDensity' = fd
     /\ IF Passes(sdf, ecm)
        THEN /\ jointAxis' = ecm.axis
             /\ subscriptions' = {Topic(ns, jointName, "cmd_pos"),
                                  Topic(ns, jointName, "cmd_thrust")}
             /\ linkEntity' = ecm.childLink
             /\ velocityEnabled' = velocityEnabled \cup {ecm.childLink}
             /\ rpmController' =
                  PIDInit(GainP(sdf), GainI(sdf), GainD(sdf), 100, -100,
                          AsLimit(ThrustToAngularVec(fd, tc, pd, cmdMax)),
                          AsLimit(ThrustToAngularVec(fd, tc, pd, cmdMin)),
                          0)
        ELSE UNCHANGED <<jointAxis, subscriptions, linkEntity,
                         velocityEnabled, rpmController>>

Configure ==
  /\ ~configured
  /\ configured' = TRUE
  /\ \E sdf \in SdfInputs, ecm \in EcmInputs : ConfigureWith(sdf, ecm)
  /\ UNCHANGED <<mtx, thrust, wrench, stepPc, info, local, hPc, lastMsg,
                 sinceRead>>

\* ------------------------------------------------------------------------
\* OnCmdThrust (lines 233-238), one call at a time per channel
\* ------------------------------------------------------------------------
Subscribed(k) == \E t \in subscriptions : t[5] = k

\* the transport node calls the handler with a message of channel k
OnCmdThrustCall(k) ==
  /\ Subscribed(k)
  /\ hPc[k] = "idle"
  /\ hPc' = [hPc EXCEPT ![k] = "lock"]
  /\ UNCHANGED <<data, velocityEnabled, wrench, configured, sdfUse, stepPc, info,
                 local, lastMsg, sinceRead>>

\* line 235: the lock_guard takes the mutex
OnCmdThrustLock(k) ==
  /\ hPc[k] = "lock"
  /\ mtx = "free"
  /\ mtx' = k
  /\ hPc' = [hPc EXCEPT ![k] = "store"]
  /\ UNCHANGED <<thrust, linkEntity, jointAxis, subscriptions, rpmController,
                 thrustCoefficient, fluidDensity, propellerDiameter,
                 velocityEnabled, wrench, configured, sdfUse, stepPc, info, local,
                 lastMsg, sinceRead>>

\* the value stored if the payload were not clamped
Stored_unclamped(msgData) == fixnan(msgData)

\* lines 236-237: the value stored for the payload _msg.data()
Stored(msgData) == clamp(fixnan(msgData), cmdMin, cmdMax)

\* a handler that adds the payload to the stored value
OnCmdThrustStore_accumulate(k) ==
  /\ hPc[k] = "store"
  /\ \E msgData \in MsgData :
       /\ thrust' = clamp(thrust + fixnan(msgData), cmdMin, cmdMax)
       /\ lastMsg' = <<msgData>>
  /\ sinceRead' = IF sinceRead < MaxSinceRead THEN sinceRead + 1 ELSE sinceRead
  /\ mtx' = "free"
  /\ hPc' = [hPc EXCEPT ![k] = "idle"]
  /\ UNCHANGED <<linkEntity, jointAxis, subscriptions, rpmController,
                 thrustCoefficient, fluidDensity, propellerDiameter,
                 velocityEnabled, wrench, configured, sdfUse, stepPc, info, local>>

\* a handler that returns without releasing the mutex
OnCmdThrustStore_holds(k) ==
  /\ hPc[k] = "store"
  /\ \E msgData \in MsgData :
       /\ thrust' = Stored(msgData)
       /\ lastMsg' = <<msgData>>
  /\ sinceRead' = IF sinceRead < MaxSinceRead THEN sinceRead + 1 ELSE sinceRead
  /\ hPc' = [hPc EXCEPT ![k] = "idle"]
  /\ UNCHANGED <<mtx, linkEntity, jointAxis, subscriptions, rpmController,
                 thrustCoefficient, fluidDensity, propellerDiameter,
                 velocityEnabled, wrench, configured, sdfUse, stepPc, info,
                 local>>

\* lines 236-238: the payload is read, the clamped value is stored and the
\* lock_guard releases the mutex
OnCmdThrustStore(k) ==
  /\ hPc[k] = "store"
  /\ \E msgData \in MsgData :
       /\ thrust' = Stored(msgData)
       /\ lastMsg' = <<msgData>>
  /\ sinceRead' = IF sinceRead < MaxSinceRead THEN sinceRead + 1 ELSE sinceRead
  /\ mtx' = "free"
  /\ hPc' = [hPc EXCEPT ![k] = "idle"]
  /\ UNCHANGED <<linkEntity, jointAxis, subscriptions, rpmController,
                 thrustCoefficient, fluidDensity, propellerDiameter,
                 velocityEnabled, wrench, configured, sdfUse, stepPc, info, local>>

\* ------------------------------------------------------------------------
\* PreUpdate (lines 256-290)
\* ------------------------------------------------------------------------
DeadBand == 1

\* the simulation loop calls PreUpdate once Configure has returned and the
\* wrench of the step before is consumed
PreUpdateCall ==
  /\ configured
  /\ stepPc = "idle"
  /\ wrench = NoWrench
  /\ \E paused \in BOOLEAN, dt \in Durations :
       info' = [paused |-> paused, dt |-> dt]
  /\ stepPc' = "entered"
  /\ UNCHANGED <<data, velocityEnabled, wrench, configured, sdfUse, local, hPc,
                 lastMsg, sinceRead>>

\* a step that does not test the pause flag and goes on to read the pose
PreUpdatePaused_unchecked ==
  /\ stepPc = "entered"
  /\ info.paused
  /\ local' = [local EXCEPT
                 !.unitVector = RotateVector("identity", Normalize(jointAxis))]
  /\ stepPc' = "lock"
  /\ UNCHANGED <<data, velocityEnabled, wrench, configured, sdfUse, info, hPc,
                 lastMsg, sinceRead>>

\* lines 260-261: a paused step returns
PreUpdatePaused ==
  /\ stepPc = "entered"
  /\ info.paused
  /\ stepPc' = "idle"
  /\ info' = NoInfo
  /\ UNCHANGED <<data, velocityEnabled, wrench, configured, sdfUse, local, hPc,
                 lastMsg, sinceRead>>

\* worldPose: the identity for an entity without a pose
WorldPoses == IF linkEntity = kNullEntity THEN {"identity"} ELSE Rotations

\* lines 263-269: the pose of the link and the axis in the world frame
PreUpdatePose ==
  /\ stepPc = "entered"
  /\ ~info.paused
  /\ \E rot \in WorldPoses :
       local' = [local EXCEPT
                   !.unitVector = RotateVector(rot, Normalize(jointAxis))]
  /\ stepPc' = "lock"
  /\ UNCHANGED <<data, velocityEnabled, wrench, configured, sdfUse, info, hPc,
                 lastMsg, sinceRead>>

\* line 273: the lock_guard takes the mutex
PreUpdateLock ==
  /\ stepPc = "lock"
  /\ mtx = "free"
  /\ mtx' = "step"
  /\ stepPc' = "read"
  /\ UNCHANGED <<thrust, linkEntity, jointAxis, subscriptions, rpmController,
                 thrustCoefficient, fluidDensity, propellerDiameter,
                 velocityEnabled, wrench, configured, sdfUse, info, local, hPc,
                 lastMsg, sinceRead>>

\* a step whose lock_guard lives to the end of PreUpdate: the copy does
\* not release the mutex
PreUpdateRead_holds ==
  /\ stepPc = "read"
  /\ local' = [local EXCEPT !.desiredThrust = thrust]
  /\ stepPc' = "control"
  /\ sinceRead' = 0
  /\ UNCHANGED <<mtx, thrust, linkEntity, jointAxis, subscriptions,
                 rpmController, thrustCoefficient, fluidDensity,
                 propellerDiameter, velocityEnabled, wrench, configured,
                 sdfUse, info, hPc, lastMsg>>

\* lines 274-275: the stored thrust is copied and the mutex released
PreUpdateRead ==
  /\ stepPc = "read"
  /\ local' = [local EXCEPT !.desiredThrust = thrust]
  /\ mtx' = "free"
  /\ stepPc' = "control"
  /\ sinceRead' = 0
  /\ UNCHANGED <<thrust, linkEntity, jointAxis, subscriptions, rpmController,
                 thrustCoefficient, fluidDensity, propellerDiameter,
                 velocityEnabled, wrench, configured, sdfUse, info, hPc, lastMsg>>

\* Link::WorldAngularVelocity: an optional, empty for an entity without the
\* component; line 280 reads its value unchecked
AngularVelocityRead ==
  IF linkEntity \in velocityEnabled
  THEN WorldAngularVelocities ELSE Indeterminate

\* a step without the dead band: Update is called whatever the error
Control_noDeadBand(pid, angularError, dt) ==
  LET u == PIDUpdate(pid, angularError, dt)
  IN [pid |-> u.pid, torque |-> u.ret]

\* a dead band that excludes its boundary
Control_boundaryOut(pid, angularError, dt) ==
  IF Ge(fabs(angularError), DeadBand)
  THEN LET u == PIDUpdate(pid, angularError, dt)
       IN [pid |-> u.pid, torque |-> u.ret]
  ELSE [pid |-> pid, torque |-> 0]

\* lines 282-284: the torque and the controller after the dead-band test
Control(pid, angularError, dt) ==
  IF Gt(fabs(angularError), DeadBand)
  THEN LET u == PIDUpdate(pid, angularError, dt)
       IN [pid |-> u.pid, torque |-> u.ret]
  ELSE [pid |-> pid, torque |-> 0]

\* lines 278-284
PreUpdateControl ==
  /\ stepPc = "control"
  /\ \E w \in AngularVelocityRead :
     \E desiredPropellerAngVel \in
          {ThrustToAngularVec(fluidDensity, thrustCoefficient,
                              propellerDiameter, local.desiredThrust)} :
     \E currentAngular \in {Dot(w, local.unitVector)} :
     \E angularError \in {Sub(currentAngular, desiredPropellerAngVel)} :
     \E c \in {Control(rpmController, angularError, info.dt)} :
       /\ rpmController' = c.pid
       /\ local' = [local EXCEPT
                      !.desiredPropellerAngVel = desiredPropellerAngVel,
                      !.currentAngular = currentAngular,
                      !.angularError = angularError,
                      !.torque = c.torque]
  /\ stepPc' = "wrench"
  /\ UNCHANGED <<mtx, thrust, linkEntity, jointAxis, subscriptions,
                 thrustCoefficient, fluidDensity, propellerDiameter,
                 velocityEnabled, wrench, configured, sdfUse, info, hPc, lastMsg,
                 sinceRead>>

\* Link::AddWorldWrench adds to the wrench of the link
AddWorldWrench(w, force, torque) ==
  [force |-> <<Add(w.force[1], force[1]), Add(w.force[2], force[2]),
               Add(w.force[3], force[3])>>,
   torque |-> <<Add(w.torque[1], torque[1]), Add(w.torque[2], torque[2]),
                Add(w.torque[3], torque[3])>>,
   added |-> TRUE]

\* lines 286-290: the stored thrust is read again, without the mutex, and
\* the wrench is added; the call returns
PreUpdateWrench ==
  /\ stepPc = "wrench"
  /\ wrench' = AddWorldWrench(wrench, Scale(local.unitVector, thrust),
                              Scale(local.unitVector, local.torque))
  /\ stepPc' = "idle"
  /\ local' = NoLocals
  /\ info' = NoInfo
  /\ UNCHANGED <<data, velocityEnabled, configured, sdfUse, hPc, lastMsg,
                 sinceRead>>

\* the physics system consumes the wrench added in this step
PhysicsUpdate ==
  /\ stepPc = "idle"
  /\ wrench # NoWrench
  /\ wrench' = NoWrench
  /\ UNCHANGED <<data, velocityEnabled, configured, sdfUse, stepPc, info, local, hPc,
                 lastMsg, sinceRead>>

\* ------------------------------------------------------------------------
\* Specification
\* ------------------------------------------------------------------------
Deliver == \E k \in Channels :
  OnCmdThrustCall(k) \/ OnCmdThrustLock(k) \/ OnCmdThrustStore(k)

PreUpdate ==
  \/ PreUpdateCall
  \/ PreUpdatePaused
  \/ PreUpdatePose
  \/ PreUpdateLock
  \/ PreUpdateRead
  \/ PreUpdateControl
  \/ PreUpdateWrench

Next == Configure \/ Deliver \/ PreUpdate \/ PhysicsUpdate

Spec == Init /\ [][Next]_vars

\* The scheduling: a call that was made runs on, so every step of a running
\* PreUpdate or OnCmdThrust that does not wait is taken eventually, and a
\* context that waits for the mutex gets it if the mutex is free again and
\* again.  When the loop calls PreUpdate and when messages arrive is up to
\* the host.
StepRuns ==
  \/ PreUpdatePaused
  \/ PreUpdatePose
  \/ PreUpdateRead
  \/ PreUpdateControl
  \/ PreUpdateWrench

Fairness ==
  /\ WF_vars(StepRuns)
  /\ SF_vars(PreUpdateLock)
  /\ \A k \in Channels :
       WF_vars(OnCmdThrustStore(k)) /\ SF_vars(OnCmdThrustLock(k))

\* the thruster after a Configure with the required tags and their default
\* values has returned, before any call of PreUpdate or OnCmdThrust
InitLive ==
  /\ mtx = "free"
  /\ thrust = 0
  /\ linkEntity = 8
  /\ jointAxis = <<2, 0, 0>>
  /\ subscriptions = {Topic("auv", "propeller_joint", "cmd_pos"),
                      Topic("auv", "propeller_joint", "cmd_thrust")}
  /\ rpmController =
       PIDInit(1, 0, 0, 100, -100,
               AsLimit(ThrustToAngularVec(1000, 1, 2, cmdMax)),
               AsLimit(ThrustToAngularVec(1000, 1, 2, cmdMin)),
               0)
  /\ thrustCoefficient = 1
  /\ fluidDensity = 1000
  /\ propellerDiameter = 2
  /\ velocityEnabled = {8}
  /\ wrench = NoWrench
  /\ configured = TRUE
  /\ sdfUse = [element |-> Sdf(Required, 1, 2, 0, 0, 0, 0),
               got |-> Required \cup {"i_gain", "d_gain"}]
  /\ stepPc = "idle"
  /\ info = NoInfo
  /\ local = NoLocals
  /\ hPc = [k \in Channels |-> "idle"]
  /\ lastMsg = <<>>
  /\ sinceRead = 0

NextLive == Deliver \/ PreUpdate \/ PhysicsUpdate

LiveSpec == InitLive /\ [][NextLive]_vars /\ Fairness

\* ------------------------------------------------------------------------
\* The conversion on its own: a step of an Active thruster that has read a
\* command and is about to convert it (line 278), for commands and
\* parameters beyond those of Spec
\* ------------------------------------------------------------------------
MaxThrust == 12

Thrusts == (-MaxThrust .. MaxThrust) \cup {-1000, -100, 100, 1000}

\* fluid density, thrust coefficient, propeller diameter [0.01 m]: the
\* defaults, a 0.1 m propeller, and a 1 m propeller in a thin fluid
ConvParams ==
  { [fd |-> 1000, tc |-> 1, pd |-> 2],
    [fd |-> 1000, tc |-> 1, pd |-> 10],
    [fd |-> 4, tc |-> 1, pd |-> 100] }

InitConv ==
  \E par \in ConvParams, t \in Thrusts, dt \in Durations :
    /\ mtx = "free"
    /\ thrust = t
    /\ linkEntity = 8
    /\ jointAxis = <<2, 0, 0>>
    /\ subscriptions = {Topic("auv", "propeller_joint", "cmd_pos"),
                        Topic("auv", "propeller_joint", "cmd_thrust")}
    /\ rpmController =
         PIDInit(1, 0, 0, 100, -100,
                 AsLimit(ThrustToAngularVec(par.fd, par.tc, par.pd, cmdMax)),
                 AsLimit(ThrustToAngularVec(par.fd, par.tc, par.pd, cmdMin)),
                 0)
    /\ thrustCoefficient = par.tc
    /\ fluidDensity = par.fd
    /\ propellerDiameter = par.pd
    /\ velocityEnabled = {8}
    /\ wrench = NoWrench
    /\ configured = TRUE
    /\ sdfUse = [element |-> Sdf(Required \cup {"fluid_density"},
                                  par.tc, par.pd, par.fd, 0, 0, 0),
                 got |-> Required \cup {"fluid_density", "i_gain", "d_gain"}]
    /\ stepPc = "control"
    /\ info = [paused |-> FALSE, dt |-> dt]
    /\ local = [NoLocals EXCEPT !.unitVector = <<1, 0, 0>>,
                                !.desiredThrust = t]
    /\ hPc = [k \in Channels |-> "idle"]
    /\ lastMsg = <<t>>
    /\ sinceRead = 0

NextConv == PreUpdateControl \/ PreUpdateWrench

SpecConv == InitConv /\ [][NextConv]_vars

\* ------------------------------------------------------------------------
\* Properties
\* ------------------------------------------------------------------------
Active == subscriptions # {}
Delivered == lastMsg # <<>>

\* some delivery context completes OnCmdThrust in this step
StoreStep == \E k \in Channels : hPc[k] = "store" /\ hPc'[k] = "idle"

\* min(max(v, cmdMin), cmdMax) of a finite v
Clamped(v) == IF v > cmdMax THEN cmdMax ELSE IF v < cmdMin THEN cmdMin ELSE v

\* what the last completed OnCmdThrust has to have stored: 0 before any
\* delivery and for a non-finite payload, the clamped payload otherwise
LastCommand ==
  IF ~Delivered THEN 0
  ELSE IF IsFinite(lastMsg[1]) THEN Clamped(lastMsg[1]) ELSE 0

\* C1: in every reachable state, whatever payloads were delivered and
\* however the deliveries interleave with the steps, the stored thrust
\* command lies in [cmdMin, cmdMax].
C1_ThrustInRange == cmdMin <= thrust /\ thrust <= cmdMax

\* an out-of-range payload was delivered while a step was under way
C1_Witness ==
  /\ Delivered /\ lastMsg[1] = -2000
  /\ thrust = cmdMin
  /\ stepPc = "wrench"

\* C6: last write wins.  The value a step reads under the mutex (line 274)
\* is the clamped payload of the most recently completed OnCmdThrust, 0
\* before any, whatever was delivered before it; with no delivery since the
\* step before, that is the value the step before read.
C6_LastWriteWins ==
  /\ [](thrust = LastCommand)
  /\ [][(stepPc = "read" /\ stepPc' = "control")
          => local'.desiredThrust = LastCommand]_vars

\* two deliveries completed since the last step read the stored value, and a
\* step holds the mutex and is about to read the value of the later one
C6_Witness ==
  /\ sinceRead = MaxSinceRead
  /\ stepPc = "read"
  /\ lastMsg = <<100>>
  /\ thrust = 100

\* C7: a non-finite payload stores exactly 0, and no non-finite value is
\* stored, read by a step for the conversion, or used for the force.
C7_NonFiniteIsZero ==
  /\ (Delivered /\ ~IsFinite(lastMsg[1])) => thrust = 0
  /\ IsFinite(thrust)
  /\ IsFinite(local.desiredThrust)
  /\ \A i \in 1..3 : IsFinite(wrench.force[i])

\* +Inf was the last payload delivered and a wrench was added after it
C7_Witness ==
  /\ lastMsg = <<PInf>>
  /\ thrust = 0
  /\ wrench.added

\* C8: a finite payload v stores min(max(v, cmdMin), cmdMax), and
\* delivering the payload of the last delivery again leaves the stored
\* value as it is.
C8_ClampExact ==
  /\ []((Delivered /\ IsFinite(lastMsg[1])) => thrust = Clamped(lastMsg[1]))
  /\ [][(StoreStep /\ lastMsg' = lastMsg) => thrust' = thrust]_vars

\* scenario B: 2000 was delivered and cmdMax is stored
C8_Witness ==
  /\ lastMsg = <<2000>>
  /\ thrust = cmdMax
  /\ cmdMax = 1000

\* C2: the step and a handler never access the stored thrust at the same
\* time: no state has a handler about to store at line 236 while the step is
\* at one of its reads of the stored thrust (lines 274 and 288).
StepAccessesThrust == stepPc \in {"read", "wrench"}
C2_NoConcurrentAccess ==
  \A k \in Channels : ~(hPc[k] = "store" /\ StepAccessesThrust)

\* C3: after a Configure that returned early no step has any effect: no
\* wrench is added and the PID is never updated.
ConfigureFailed == configured /\ ~Active
C3_FailedConfigureNoOp ==
  ConfigureFailed => (~wrench.added /\ rpmController = DefaultPID)

\* C4: a configuration with a zero or negative fluid density, thrust
\* coefficient or propeller diameter never becomes Active.
C4_RejectsNonPositive ==
  Active => (fluidDensity > 0 /\ thrustCoefficient > 0 /\ propellerDiameter > 0)

\* C5: a step called with the pause flag set returns at once: it goes back
\* to idle without taking the mutex, and the stored thrust, the PID, the
\* wrench and the rest of the thruster's state are as before.
C5_PausedNoOp ==
  /\ [](info.paused => stepPc = "entered")
  /\ [][(stepPc = "entered" /\ info.paused /\ stepPc' # stepPc)
          => /\ stepPc' = "idle"
             /\ UNCHANGED <<data, velocityEnabled, wrench, local, hPc,
                            lastMsg>>]_vars

\* a paused step is called while a command is stored, the link turns and the
\* PID has seen an error
C5_Witness ==
  /\ stepPc = "entered" /\ info.paused
  /\ Active
  /\ thrust # 0
  /\ rpmController.pErr # 0

\* C9: the dead band.  The error of a step is the measured angular velocity
\* minus ThrustToAngularVec of the command the step read; with |error| <= 0.1
\* the torque is 0, with |error| > 0.1 it is what the PID's Update returns
\* for the error and dt; that torque along the axis is the torque added.
C9_DeadBand ==
  /\ [][(stepPc = "control" /\ stepPc' = "wrench") =>
          LET e == local'.angularError
          IN /\ e = Sub(local'.currentAngular,
                        ThrustToAngularVec(fluidDensity, thrustCoefficient,
                                           propellerDiameter,
                                           local.desiredThrust))
             /\ Ge(DeadBand, fabs(e)) => local'.torque = 0
             /\ Gt(fabs(e), DeadBand) =>
                  local'.torque = PIDUpdate(rpmController, e, info.dt).ret]_vars
  /\ [][(stepPc = "wrench" /\ stepPc' = "idle")
          => wrench'.torque = Scale(local.unitVector, local.torque)]_vars

\* an Active step whose error is exactly the dead band: its torque is 0
C9_Witness ==
  /\ Active
  /\ stepPc = "wrench"
  /\ fabs(local.angularError) = DeadBand
  /\ info.dt # 0
  /\ local.torque = 0

\* C10: once Configure has returned, the PID changes only in a step whose
\* |error| > 0.1: dead-band steps, paused steps and deliveries leave it as
\* it is, and nothing resets it.
C10_PidFrame ==
  [][(configured /\ rpmController' # rpmController)
       => (stepPc = "control" /\ Gt(fabs(local'.angularError), DeadBand))]_vars

\* a step inside the dead band has run after the PID had seen an error
C10_Witness ==
  /\ Active
  /\ stepPc = "wrench"
  /\ Ge(DeadBand, fabs(local.angularError))
  /\ info.dt # 0
  /\ rpmController.pErr # 0

\* the step has converted the command it read
Converted == stepPc = "wrench"
PositiveParameters ==
  fluidDensity > 0 /\ thrustCoefficient > 0 /\ propellerDiameter > 0

\* C11: with positive parameters the angular velocity has the sign of the
\* thrust, is 0 exactly for thrust 0, and the thrust of opposite sign gives
\* the opposite angular velocity.
C11_SignAndOdd ==
  (Converted /\ PositiveParameters) =>
    LET t == local.desiredThrust
        r == local.desiredPropellerAngVel
    IN /\ t > 0 => r > 0
       /\ t < 0 => r < 0
       /\ r = 0 <=> t = 0
       /\ ThrustToAngularVec(fluidDensity, thrustCoefficient,
                             propellerDiameter, -t) = -r

\* a reverse thrust was converted
C11_Witness ==
  /\ Converted /\ PositiveParameters
  /\ local.desiredThrust = -1000
  /\ local.desiredPropellerAngVel = -25000

\* r is the square root of |t| / (fluidDensity * thrustCoefficient *
\* propellerDiameter^4) rounded down to 0.1 rad/s, with the sign of t
SquareRelation(t, r) ==
  LET den == fluidDensity * thrustCoefficient * propellerDiameter
               * propellerDiameter * propellerDiameter * propellerDiameter
      m == IF r < 0 THEN -r ELSE r
      a == IF t < 0 THEN -t ELSE t
  IN /\ (t > 0 => r >= 0) /\ (t < 0 => r <= 0)
     /\ IF den <= DenScale
        THEN /\ m * m <= (DenScale \div den) * 100 * a
             /\ (DenScale \div den) * 100 * a < (m + 1) * (m + 1)
        ELSE /\ m * m * (den \div DenScale) <= 100 * a
             /\ 100 * a < (m + 1) * (m + 1) * (den \div DenScale)

DefaultParameters ==
  fluidDensity = 1000 /\ thrustCoefficient = 1 /\ propellerDiameter = 2

\* C14 as stated: the square relation holds, nothing is truncated to an
\* integer, and 100 N with the default parameters gives about 1118.03 rad/s.
C14_AsStated ==
  (Converted /\ PositiveParameters) =>
    /\ SquareRelation(local.desiredThrust, local.desiredPropellerAngVel)
    /\ (DefaultParameters /\ local.desiredThrust = 100)
         => local.desiredPropellerAngVel = 11180

\* C14 amended: the square relation holds to the 0.1 rad/s of the model,
\* fractions of the quotient included, and 100 N with the default
\* parameters gives about 790.57 rad/s.
C14_Relation ==
  (Converted /\ PositiveParameters) =>
    /\ SquareRelation(local.desiredThrust, local.desiredPropellerAngVel)
    /\ (DefaultParameters /\ local.desiredThrust = 100)
         => local.desiredPropellerAngVel = 7905

\* scenario A: 100 N with the default parameters
C14_Witness ==
  /\ Converted /\ DefaultParameters
  /\ local.desiredThrust = 100
  /\ local.desiredPropellerAngVel = 7905

\* the gain the configuration asks for: the value of the tag if it is
\* present, the default otherwise
GainAsked(key, default) ==
  IF key \in sdfUse.element.has THEN sdfUse.element.val[key] ELSE default

\* C12: once Configure has succeeded the PID has, for each of p_gain,
\* i_gain and d_gain, the value of the tag if the tag is present and the
\* default (0.1, 0, 0) if it is absent, and Configure has called Get for no
\* gain tag that is absent.
C12_GainsAsConfigured ==
  Active =>
    /\ rpmController.pGain = GainAsked("p_gain", 1)
    /\ rpmController.iGain = GainAsked("i_gain", 0)
    /\ rpmController.dGain = GainAsked("d_gain", 0)
    /\ (sdfUse.got \cap {"p_gain", "i_gain", "d_gain"})
         \subseteq sdfUse.element.has

\* C13: a step with dt = 0 leaves the PID as it was and adds the wrench
\* with force unitVector * thrust and torque 0, whatever the angular error;
\* the PID changes in no step other than Configure and a control step with
\* dt # 0.  Two such steps in a row, with the stored thrust and the pose
\* unchanged, therefore add the same wrench and leave the PID state of
\* before the first.
C13_ZeroDuration ==
  [][/\ (Active /\ rpmController' # rpmController)
          => (stepPc = "control" /\ info.dt # 0)
     /\ (Active /\ stepPc = "control" /\ info.dt = 0 /\ stepPc' = "wrench")
          => local'.torque = 0
     /\ (Active /\ stepPc = "wrench" /\ info.dt = 0 /\ stepPc' = "idle")
          => wrench' = [force |-> Scale(local.unitVector, thrust),
                        torque |-> Zero3, added |-> TRUE]]_vars

\* a step with dt = 0 got past the dead band, after an earlier step with
\* dt # 0 had updated the PID
C13_Witness ==
  /\ Active /\ stepPc = "wrench" /\ info.dt = 0
  /\ Gt(fabs(local.angularError), DeadBand)
  /\ local.torque = 0
  /\ rpmController.pErr # 0

\* C15: the force a step of an Active thruster adds is unitVector times
\* the thrust that step copied under the mutex, whatever the handlers did
\* after the copy.
C15_ForceFromSnapshot ==
  [][(Active /\ stepPc = "wrench" /\ stepPc' = "idle")
       => wrench'.force = Scale(local.unitVector, local.desiredThrust)]_vars

\* the channels of the topics subscribed to
SubscribedChannels == {t[5] : t \in subscriptions}

\* C16: the thruster starts Unconfigured; it becomes Active only in a
\* Configure call whose element has the three required tags and whose joint
\* is found; once Active it stays Active with the same subscriptions; while
\* Unconfigured no handler runs and the stored thrust is 0; when Active both
\* cmd_pos and cmd_thrust are subscribed, under one namespace and joint.
C16_Lifecycle ==
  /\ ~Active
  /\ [](~Active => /\ thrust = 0
                   /\ ~Delivered
                   /\ \A k \in Channels : hPc[k] = "idle")
  /\ [](Active => /\ SubscribedChannels = Channels
                  /\ Cardinality(subscriptions) = 2
                  /\ \A t, u \in subscriptions : t[2] = u[2] /\ t[4] = u[4])
  /\ [][/\ Active => subscriptions' = subscriptions
        /\ (~Active /\ Active')
             => /\ ~configured /\ configured'
                /\ Required \subseteq sdfUse'.element.has
                /\ linkEntity' # kNullEntity]_vars

\* both channels deliver to the handler at once
C16_Witness ==
  /\ Active
  /\ hPc["cmd_pos"] = "store"
  /\ hPc["cmd_thrust"] = "lock"

\* the thrusts the conversion is compared on
LimitThrusts == Thrusts \cup {cmdMin, cmdMax}

\* C17: a successful Configure leaves the PID with upper limit
\* ThrustToAngularVec(cmdMax) and lower limit ThrustToAngularVec(cmdMin),
\* computed with the parameters it has just read; with positive parameters
\* the conversion is non-decreasing and lower < upper; the limits do not
\* change afterwards.
C17_PidLimits ==
  [][/\ (~Active /\ Active') =>
          LET T(t) == ThrustToAngularVec(fluidDensity', thrustCoefficient',
                                         propellerDiameter', t)
          IN /\ rpmController'.cmdMax = AsLimit(T(cmdMax))
             /\ rpmController'.cmdMin = AsLimit(T(cmdMin))
             /\ PositiveParameters' =>
                  /\ rpmController'.cmdMin < rpmController'.cmdMax
                  /\ \A t1, t2 \in LimitThrusts :
                       t1 <= t2 => T(t1) <= T(t2)
     /\ Active => /\ rpmController'.cmdMax = rpmController.cmdMax
                  /\ rpmController'.cmdMin = rpmController.cmdMin]_vars

\* the limits of the default parameters: +/- 2500 rad/s
C17_Witness ==
  /\ Active /\ PositiveParameters
  /\ rpmController.cmdMax = 250000
  /\ rpmController.cmdMin = -250000

\* C18: the step holds the mutex exactly while it copies the stored thrust
\* (not while it reads the pose or the angular velocity, converts, updates
\* the PID or adds the wrench), and a handler holds it exactly while it
\* computes and stores the clamped value.
C18_CriticalSections ==
  /\ mtx = "step" <=> stepPc = "read"
  /\ \A k \in Channels : mtx = k <=> hPc[k] = "store"

\* the step runs the controller while a handler is inside its critical
\* section
C18_Witness ==
  /\ stepPc = "control"
  /\ mtx = "cmd_thrust"
  /\ hPc["cmd_pos"] = "lock"

=============================================================================
